---------------------------- MODULE Spec2Model ----------------------------
(***************************************************************************)
(* HestiaViz Redux: the reading view (text panel + map panel), its         *)
(* memory-window place selector, the offset-based text annotation and the  *)
(* on-demand Greek text fetch, with the place lists of the summary and     *)
(* place pages, modelled from src/hestia-viz/src.                          *)
(*                                                                         *)
(* Strings of the program (chapter text, mention names) are sequences of   *)
(* one-character strings.  Opacities are kept in hundredths (91 = 0.91).   *)
(* A coordinate is the JSON token of the gazetteer ("null", "0" or a       *)
(* non-zero number), so that JavaScript truthiness can be told apart from  *)
(* mere presence.                                                          *)
(***************************************************************************)
EXTENDS Integers, Sequences, FiniteSets, Bags, TLC

VARIABLES
    bookTexts,          \* data: book id -> bundled book data
    placesData,         \* data: the gazetteer, place id -> record
    booksIndex,         \* data: book id -> the book's entry in books.json
    path,               \* router location
    currentChapter,     \* ReadingView state
    selectedPlace,      \* ReadingView state (NoPlace = null)
    highlightedPlaces,  \* ReadingView state
    language,           \* ReadingView state
    greekText,          \* ReadingView state: chapter -> cached Greek text
    inflight,           \* Greek fetches awaiting their response
    requests,           \* history: chapter -> number of fetches issued
    lastEvent,          \* history: the last user or network event handled
    mapPlaces,          \* what the last render handed to MapPanel
    segments,           \* what the last render of TextPanel built
    unlocatedPlaces,    \* TextPanel: the places without known coordinates
    selectedBook,       \* SummaryView state
    bookPlaces,         \* SummaryView state: the places on the overview map
    coMarkers,          \* PlaceDetailView: the co-occurrence places and markers
    activeBaseLayer,    \* MapPanel state
    temporalLayers,     \* the MapLibre layers TemporalMapLayer has on the map
    scriptBooks,        \* fetch-greek-text.js: the books list
    scriptPc,           \* fetch-greek-text.js: where the run is
    scriptBook,         \* fetch-greek-text.js: index of the book of the outer loop
    scriptChapter,      \* fetch-greek-text.js: chapter of the inner loop
    allText,            \* fetch-greek-text.js: book id -> chapter -> text
    fetchLog,           \* history: the requests of the run and their replies
    outputFile          \* what has been written to greek-text.json, write by write

vars == <<bookTexts, placesData, booksIndex, path, currentChapter, selectedPlace,
          highlightedPlaces, language, greekText, inflight, requests,
          lastEvent, mapPlaces, segments, unlocatedPlaces, selectedBook, bookPlaces,
          coMarkers,
          activeBaseLayer, temporalLayers, scriptBooks, scriptPc, scriptBook,
          scriptChapter, allText, fetchLog, outputFile>>

dataVars == <<bookTexts, placesData, booksIndex>>
readingVars == <<currentChapter, selectedPlace, highlightedPlaces, language,
                 greekText, inflight, requests>>
otherViewVars == <<selectedBook, bookPlaces, coMarkers>>
mapVars == <<activeBaseLayer, temporalLayers>>
appVars == <<dataVars, path, readingVars, lastEvent, mapPlaces, segments, unlocatedPlaces,
             otherViewVars,
             mapVars>>
scriptVars == <<scriptBooks, scriptPc, scriptBook, scriptChapter, allText, fetchLog,
                outputFile>>

---------------------------------------------------------------------------
(* Bounds of the model *)

MaxChapter == 12        \* chapter ids of a drawn book are 1..MaxChapter
MaxTextLen == 5         \* length of a drawn chapter text
MaxInFlight == 2        \* Greek fetches that may await their response at once

(* Program constants *)

MEMORY_WINDOW == 10

---------------------------------------------------------------------------
(* Data *)

PlaceIds == {"a", "b"}
NoPlace == "null"

\* JSON tokens a coordinate can hold
CoordTokens == {"null", "0", "38.5"}

\* JavaScript truthiness of a coordinate: null and 0 are falsy
Truthy(v) == v # "null" /\ v # "0"

Min(x, y) == IF x <= y THEN x ELSE y
Max(x, y) == IF x >= y THEN x ELSE y

\* faulty variant: a gazetteer record is enough
hasCoordsAnyRecord(pd, placeId) == placeId \in DOMAIN pd

\* placeData && placeData.lat && placeData.lng
hasCoords(pd, placeId) ==
    /\ placeId \in DOMAIN pd
    /\ Truthy(pd[placeId].lat)
    /\ Truthy(pd[placeId].lng)

\* bookData.chapters.find(c => c.id === id): index of the first match, 0 if none
RECURSIVE findChapterFrom(_, _, _)
findChapterFrom(chapters, id, k) ==
    IF k > Len(chapters) THEN 0
    ELSE IF chapters[k].id = id THEN k
    ELSE findChapterFrom(chapters, id, k + 1)

findChapter(chapters, id) == findChapterFrom(chapters, id, 1)

---------------------------------------------------------------------------
(* ReadingView.getMemoryPlaces *)

\* faulty variant: the step of the README, 1.0 - (i * 0.1)
memoryOpacityTenth(i) == 100 - (i * 10)

\* opacity of a place taken from the chapter i before the current one,
\* 1.0 - (i * 0.09), in hundredths
memoryOpacity(i) == 100 - (i * 9)

\* currentChapterData.places.forEach(...) of the current chapter
RECURSIVE collectCurrent(_, _, _, _, _)
collectCurrent(pd, mentions, k, seenCurrent, acc) ==
    IF k > Len(mentions) THEN [seen |-> seenCurrent, list |-> acc]
    ELSE LET p == mentions[k].placeId IN
         IF hasCoords(pd, p) /\ p \notin seenCurrent
         THEN collectCurrent(pd, mentions, k + 1, seenCurrent \cup {p},
                             Append(acc, [id |-> p, opacity |-> 100]))
         ELSE collectCurrent(pd, mentions, k + 1, seenCurrent, acc)

\* faulty variant: a memory place is not checked against the current chapter's places
RECURSIVE collectMemoryNoCurrent(_, _, _, _, _, _, _, _)
collectMemoryNoCurrent(pd, mentions, k, seenCurrent, seenMemory, acc, opacity, memChapter) ==
    IF k > Len(mentions) THEN [seen |-> seenMemory, list |-> acc]
    ELSE LET p == mentions[k].placeId IN
         IF hasCoords(pd, p) /\ p \notin seenMemory
         THEN collectMemoryNoCurrent(pd, mentions, k + 1, seenCurrent,
                            seenMemory \cup {p},
                            Append(acc, [id |-> p, opacity |-> opacity,
                                         memoryChapter |-> memChapter]),
                            opacity, memChapter)
         ELSE collectMemoryNoCurrent(pd, mentions, k + 1, seenCurrent, seenMemory,
                            acc, opacity, memChapter)

\* faulty variant: a memory place is not checked against the places already kept
RECURSIVE collectMemoryNoSeen(_, _, _, _, _, _, _, _)
collectMemoryNoSeen(pd, mentions, k, seenCurrent, seenMemory, acc, opacity, memChapter) ==
    IF k > Len(mentions) THEN [seen |-> seenMemory, list |-> acc]
    ELSE LET p == mentions[k].placeId IN
         IF hasCoords(pd, p) /\ p \notin seenCurrent
         THEN collectMemoryNoSeen(pd, mentions, k + 1, seenCurrent,
                            seenMemory \cup {p},
                            Append(acc, [id |-> p, opacity |-> opacity,
                                         memoryChapter |-> memChapter]),
                            opacity, memChapter)
         ELSE collectMemoryNoSeen(pd, mentions, k + 1, seenCurrent, seenMemory,
                            acc, opacity, memChapter)

\* memChapterData.places.forEach(...) of one chapter of the window
RECURSIVE collectMemory(_, _, _, _, _, _, _, _)
collectMemory(pd, mentions, k, seenCurrent, seenMemory, acc, opacity, memChapter) ==
    IF k > Len(mentions) THEN [seen |-> seenMemory, list |-> acc]
    ELSE LET p == mentions[k].placeId IN
         IF hasCoords(pd, p) /\ p \notin seenCurrent /\ p \notin seenMemory
         THEN collectMemory(pd, mentions, k + 1, seenCurrent, seenMemory \cup {p},
                            Append(acc, [id |-> p, opacity |-> opacity,
                                         memoryChapter |-> memChapter]),
                            opacity, memChapter)
         ELSE collectMemory(pd, mentions, k + 1, seenCurrent, seenMemory, acc,
                            opacity, memChapter)

\* faulty variant: the loop runs back to chapter 1 whatever the window
RECURSIVE memoryLoopWhole(_, _, _, _, _, _, _)
memoryLoopWhole(pd, chapters, cur, i, seenCurrent, seenMemory, acc) ==
    LET memChapter == cur - i IN
    IF memChapter < 1 THEN acc
    ELSE LET k == findChapter(chapters, memChapter) IN
         IF k = 0
         THEN memoryLoopWhole(pd, chapters, cur, i + 1, seenCurrent, seenMemory, acc)
         ELSE LET r == collectMemory(pd, chapters[k].places, 1, seenCurrent,
                                     seenMemory, acc, memoryOpacity(i), memChapter)
              IN memoryLoopWhole(pd, chapters, cur, i + 1, seenCurrent, r.seen, r.list)

\* for (let i = 1; i <= MEMORY_WINDOW; i++) { ... }
RECURSIVE memoryLoop(_, _, _, _, _, _, _)
memoryLoop(pd, chapters, cur, i, seenCurrent, seenMemory, acc) ==
    IF i > MEMORY_WINDOW THEN acc
    ELSE LET memChapter == cur - i IN
         IF memChapter < 1 THEN acc                                  \* break
         ELSE LET k == findChapter(chapters, memChapter) IN
              IF k = 0
              THEN memoryLoop(pd, chapters, cur, i + 1, seenCurrent,
                              seenMemory, acc)                       \* continue
              ELSE LET r == collectMemory(pd, chapters[k].places, 1, seenCurrent,
                                          seenMemory, acc, memoryOpacity(i),
                                          memChapter)
                   IN memoryLoop(pd, chapters, cur, i + 1, seenCurrent,
                                 r.seen, r.list)

NoBook == [id |-> 0, chapters |-> <<>>]

getMemoryPlaces(bookData, pd, cur) ==
    IF bookData = NoBook THEN [current |-> <<>>, memory |-> <<>>]
    ELSE LET k == findChapter(bookData.chapters, cur)
             c == IF k = 0 THEN [seen |-> {}, list |-> <<>>]
                  ELSE collectCurrent(pd, bookData.chapters[k].places, 1, {}, <<>>)
         IN [current |-> c.list,
             memory  |-> memoryLoop(pd, bookData.chapters, cur, 1, c.seen, {}, <<>>)]

---------------------------------------------------------------------------
(* TextPanel.annotatedText *)

\* faulty variant: the end offset taken as the last character, not one past it
sliceInclusive(text, from, to) == SubSeq(text, from + 1, Min(to + 1, Len(text)))

\* text.slice(from, to) for offsets from, to >= 0
slice(text, from, to) == SubSeq(text, from + 1, Min(to, Len(text)))

\* faulty variant: the mentions are taken in the order of the data
sortedPlacesUnsorted(places) == places

\* [...places].sort((a, b) => a.startOffset - b.startOffset): a stable sort
RECURSIVE insertByStart(_, _)
insertByStart(sorted, m) ==
    IF sorted = <<>> THEN <<m>>
    ELSE IF sorted[Len(sorted)].startOffset <= m.startOffset
         THEN Append(sorted, m)
         ELSE Append(insertByStart(SubSeq(sorted, 1, Len(sorted) - 1), m),
                     sorted[Len(sorted)])

RECURSIVE sortFrom(_, _, _)
sortFrom(places, k, sorted) ==
    IF k > Len(places) THEN sorted
    ELSE sortFrom(places, k + 1, insertByStart(sorted, places[k]))

sortedPlaces(places) == sortFrom(places, 1, <<>>)

\* sortedPlaces.forEach((place, index) => { ... }) and the remaining text
RECURSIVE buildSegments(_, _, _, _, _, _, _, _)
buildSegments(text, sorted, k, lastEnd, acc, pd, selected, highlighted) ==
    IF k > Len(sorted)
    THEN IF lastEnd < Len(text)
         THEN Append(acc, [type |-> "text", content |-> slice(text, lastEnd, Len(text))])
         ELSE acc
    ELSE LET place  == sorted[k]
             before == IF place.startOffset > lastEnd
                       THEN Append(acc, [type |-> "text",
                                         content |-> slice(text, lastEnd, place.startOffset)])
                       ELSE acc
             seg    == [type |-> "place",
                        placeId |-> place.placeId,
                        name |-> place.name,
                        hasCoords |-> hasCoords(pd, place.placeId),
                        isSelected |-> (selected = place.placeId),
                        isHighlighted |-> (place.placeId \in highlighted)]
         IN buildSegments(text, sorted, k + 1, place.endOffset, Append(before, seg),
                          pd, selected, highlighted)

NoChapter == [id |-> 0, text |-> <<>>, places |-> <<>>]

\* bookData.chapters.find(c => c.id === currentChapter)
chapterDataOf(bookData, cur) ==
    LET k == findChapter(bookData.chapters, cur)
    IN IF k = 0 THEN NoChapter ELSE bookData.chapters[k]

annotatedText(chapterData, pd, selected, highlighted) ==
    IF chapterData = NoChapter THEN <<>>
    ELSE buildSegments(chapterData.text, sortedPlaces(chapterData.places), 1, 0,
                       <<>>, pd, selected, highlighted)

\* the letters of the names
UpperCase == <<"A", "B", "C", "D", "E", "F", "G", "H", "I", "J", "K", "L", "M",
               "N", "O", "P", "Q", "R", "S", "T", "U", "V", "W", "X", "Y", "Z">>
LowerCase == <<"a", "b", "c", "d", "e", "f", "g", "h", "i", "j", "k", "l", "m",
               "n", "o", "p", "q", "r", "s", "t", "u", "v", "w", "x", "y", "z">>

\* the rank of a character in the comparison of names, for the characters
\* of the drawn names: digits before letters, a lower-case letter before its
\* capital; the id of a numbered place ("12") is ranked as the string it is
collationRank(ch) ==
    IF \E n \in 0..99 : ToString(n) = ch
    THEN LET n == CHOOSE x \in 0..99 : ToString(x) = ch
         IN IF n < 10 THEN 100 * (n + 1) ELSE 100 * ((n \div 10) + 1) + (n % 10) + 1
    ELSE IF \E k \in 1..Len(LowerCase) : LowerCase[k] = ch
    THEN 10000 + 10 * (CHOOSE k \in 1..Len(LowerCase) : LowerCase[k] = ch)
    ELSE IF \E k \in 1..Len(UpperCase) : UpperCase[k] = ch
    THEN 10005 + 10 * (CHOOSE k \in 1..Len(UpperCase) : UpperCase[k] = ch)
    ELSE 0

\* a.localeCompare(b) <= 0
RECURSIVE localeCompareLeq(_, _)
localeCompareLeq(a, b) ==
    IF a = <<>> THEN TRUE
    ELSE IF b = <<>> THEN FALSE
    ELSE IF collationRank(Head(a)) # collationRank(Head(b))
         THEN collationRank(Head(a)) < collationRank(Head(b))
         ELSE localeCompareLeq(Tail(a), Tail(b))

\* unlocated.sort((a, b) => a.name.localeCompare(b.name)): a stable sort
RECURSIVE insertByName(_, _)
insertByName(sorted, m) ==
    IF sorted = <<>> THEN <<m>>
    ELSE IF localeCompareLeq(sorted[Len(sorted)].name, m.name) THEN Append(sorted, m)
         ELSE Append(insertByName(SubSeq(sorted, 1, Len(sorted) - 1), m),
                     sorted[Len(sorted)])

RECURSIVE sortByNameFrom(_, _, _)
sortByNameFrom(list, k, sorted) ==
    IF k > Len(list) THEN sorted
    ELSE sortByNameFrom(list, k + 1, insertByName(sorted, list[k]))

\* places.forEach(place => { ... unlocated.push({id, name}) })
RECURSIVE collectUnlocated(_, _, _, _, _)
collectUnlocated(pd, places, k, seen, acc) ==
    IF k > Len(places) THEN acc
    ELSE LET id == places[k].placeId
         IN IF ~hasCoords(pd, id) /\ id \notin seen
            THEN collectUnlocated(pd, places, k + 1, seen \cup {id},
                                  Append(acc, [id |-> id, name |-> places[k].name]))
            ELSE collectUnlocated(pd, places, k + 1, seen, acc)

\* TextPanel.unlocatedPlaces
unlocatedOf(chapterData, pd) ==
    IF chapterData = NoChapter THEN <<>>
    ELSE sortByNameFrom(collectUnlocated(pd, chapterData.places, 1, {}, <<>>), 1, <<>>)

\* what TextPanel puts on the page for a segment
shownText(seg) == IF seg.type = "text" THEN seg.content ELSE seg.name

---------------------------------------------------------------------------
(* SummaryView and PlaceDetailView *)

\* Object.values(placesData): the records in the order of the object's keys
RECURSIVE valuesOf(_, _)
valuesOf(pd, keys) ==
    IF keys = {} THEN <<>>
    ELSE LET k == CHOOSE x \in keys : TRUE
         IN <<pd[k]>> \o valuesOf(pd, keys \ {k})

objectValues(pd) == valuesOf(pd, DOMAIN pd)

\* place.occurrences.some(occ => occ.book === book)
inBook(place, book) ==
    \E i \in 1..Len(place.occurrences) : place.occurrences[i].book = book

\* faulty variant: only the latitude is looked at
plottableLatOnly(place) == Truthy(place.lat)

\* !(!place.lat || !place.lng)
plottable(place) == Truthy(place.lat) /\ Truthy(place.lng)

\* SummaryView's effect on [selectedBook, placesData]
RECURSIVE collectBookPlaces(_, _, _, _, _)
collectBookPlaces(values, k, book, seen, acc) ==
    IF k > Len(values) THEN acc
    ELSE LET place == values[k] IN
         IF ~plottable(place) THEN collectBookPlaces(values, k + 1, book, seen, acc)
         ELSE IF inBook(place, book) /\ place.id \notin seen
              THEN collectBookPlaces(values, k + 1, book, seen \cup {place.id},
                                     Append(acc, place))
              ELSE collectBookPlaces(values, k + 1, book, seen, acc)

computeBookPlaces(pd, book) == collectBookPlaces(objectValues(pd), 1, book, {}, <<>>)

\* [...new Set(chapters)].sort((a, b) => a - b)
RECURSIVE ascending(_)
ascending(set) ==
    IF set = {} THEN <<>>
    ELSE LET m == CHOOSE x \in set : \A y \in set : x <= y
         IN <<m>> \o ascending(set \ {m})

\* PlaceDetailView.occurrencesByBook: book -> the chapters of the place's
\* occurrences in it, each once, ascending
occurrencesByBook(pd, placeId) ==
    IF placeId \notin DOMAIN pd THEN <<>>
    ELSE LET occ == pd[placeId].occurrences
             books == {occ[i].book : i \in 1..Len(occ)}
         IN [b \in books |->
                ascending({occ[i].chapter : i \in {j \in 1..Len(occ) : occ[j].book = b}})]

\* chapterSet of PlaceDetailView: the `${occ.book}-${occ.chapter}` keys
chapterSetOf(place) ==
    {<<place.occurrences[i].book, place.occurrences[i].chapter>> :
        i \in 1..Len(place.occurrences)}

\* count of p's occurrence records that fall in the chapter set
RECURSIVE coCountFrom(_, _, _)
coCountFrom(occ, k, chapterSet) ==
    IF k > Len(occ) THEN 0
    ELSE (IF <<occ[k].book, occ[k].chapter>> \in chapterSet THEN 1 ELSE 0)
         + coCountFrom(occ, k + 1, chapterSet)

\* Object.values(placesData).forEach(p => { ... coPlaces[p.id] = ... })
RECURSIVE collectCoPlaces(_, _, _, _, _)
collectCoPlaces(values, k, placeId, chapterSet, acc) ==
    IF k > Len(values) THEN acc
    ELSE LET p == values[k]
             count == coCountFrom(p.occurrences, 1, chapterSet)
         IN IF p.id = placeId \/ count = 0
            THEN collectCoPlaces(values, k + 1, placeId, chapterSet, acc)
            ELSE collectCoPlaces(values, k + 1, placeId, chapterSet,
                    Append(acc, [id |-> p.id, lat |-> p.lat, lng |-> p.lng,
                                 occurrences |-> p.occurrences, coCount |-> count]))

\* .sort((a, b) => b.coCount - a.coCount): a stable sort, largest first
RECURSIVE insertByCount(_, _)
insertByCount(sorted, m) ==
    IF sorted = <<>> THEN <<m>>
    ELSE IF sorted[Len(sorted)].coCount >= m.coCount
         THEN Append(sorted, m)
         ELSE Append(insertByCount(SubSeq(sorted, 1, Len(sorted) - 1), m),
                     sorted[Len(sorted)])

RECURSIVE sortByCountFrom(_, _, _)
sortByCountFrom(list, k, sorted) ==
    IF k > Len(list) THEN sorted
    ELSE sortByCountFrom(list, k + 1, insertByCount(sorted, list[k]))

CO_LIMIT == 10

\* faulty variant: the whole sorted list is shown
coOccurringPlacesUnlimited(pd, placeId) ==
    IF placeId \notin DOMAIN pd THEN <<>>
    ELSE sortByCountFrom(
            collectCoPlaces(objectValues(pd), 1, placeId, chapterSetOf(pd[placeId]), <<>>),
            1, <<>>)

\* PlaceDetailView.coOccurringPlaces
coOccurringPlaces(pd, placeId) ==
    IF placeId \notin DOMAIN pd THEN <<>>
    ELSE LET all == sortByCountFrom(
                        collectCoPlaces(objectValues(pd), 1, placeId,
                                        chapterSetOf(pd[placeId]), <<>>),
                        1, <<>>)
         IN SubSeq(all, 1, Min(CO_LIMIT, Len(all)))

\* coOccurringPlaces.filter(p => p.lat && p.lng): the markers of the detail map
coOccurrenceMarkers(list) == SelectSeq(list, plottable)

---------------------------------------------------------------------------
(* Bundled data as the model draws it: the formats of book-{n}-text.json and *)
(* places.json                                                             *)

\* one gazetteer record
placeRecord(id, lat, lng, occ) ==
    [id |-> id, lat |-> lat, lng |-> lng, occurrences |-> occ]

\* a mention list that names the places ids[1], ids[2], ... in this order;
\* the k-th mention is the one-character word at offset 2(k-1)
mentionsOf(ids) ==
    [k \in 1..Len(ids) |->
        [placeId |-> ids[k], name |-> <<ids[k]>>,
         startOffset |-> 2 * (k - 1), endOffset |-> 2 * k - 1]]

\* the chapter text that goes with mentionsOf(ids)
textOf(ids) ==
    [i \in 1..(2 * Len(ids)) |-> IF i % 2 = 1 THEN ids[(i + 1) \div 2] ELSE " "]

chapterOf(id, ids) ==
    [id |-> id, text |-> textOf(ids), places |-> mentionsOf(ids)]

\* the place-id lists a drawn chapter can mention: up to two mentions,
\* repeats included
MentionLists ==
    {<<>>} \cup {<<p>> : p \in PlaceIds}
           \cup {<<p, q>> : p \in PlaceIds, q \in PlaceIds}

Missing == <<"missing">>

RECURSIVE chaptersFrom(_, _, _)
chaptersFrom(content, id, last) ==
    IF id > last THEN <<>>
    ELSE IF content[id] = Missing THEN chaptersFrom(content, id + 1, last)
    ELSE <<chapterOf(id, content[id])>> \o chaptersFrom(content, id + 1, last)

\* a book with chapters 1..MaxChapter whose chapters c1 and c2 hold l1 and
\* l2 (a mention list, or Missing: the book has no chapter of that id) and
\* whose other chapters mention no place
bookWith(c1, l1, c2, l2) ==
    [id |-> 1,
     chapters |-> chaptersFrom(
        [c \in 1..MaxChapter |-> IF c = c1 THEN l1 ELSE IF c = c2 THEN l2 ELSE <<>>],
        1, MaxChapter)]

---------------------------------------------------------------------------
(* Router location and view state *)

NoChapterParam == -1

bookPath(b, c) == [view |-> "book", bookId |-> b, chapterId |-> c, placeId |-> NoPlace]
placePath(p) == [view |-> "place", bookId |-> 0, chapterId |-> NoChapterParam, placeId |-> p]
summaryPath == [view |-> "summary", bookId |-> 0, chapterId |-> NoChapterParam, placeId |-> NoPlace]

\* faulty variant: a book without bundled text falls back to book 1
bookDataOfFirst(bt, b) == IF b \in DOMAIN bt THEN bt[b] ELSE bt[1]

\* bookTexts?.[bookNum]
bookDataOf(bt, b) == IF b \in DOMAIN bt THEN bt[b] ELSE NoBook

NotRendered == [current |-> <<>>, memory |-> <<>>]
\* PlaceDetailView without a place: no such record ('Place not found'), or the
\* view is not on the page
NoDetail == [found |-> FALSE, occurrences |-> <<>>, list |-> <<>>, markers |-> <<>>]

NoEvent == [type |-> "none", place |-> NoPlace, hasCoords |-> FALSE]
event(t, p, c) == [type |-> t, place |-> p, hasCoords |-> c]

\* the books of booksIndex; only book 1 has bundled text in the drawn data
BookIds == {1, 2}

\* faulty variant: the chapter of the path is not read
chapterFromParamFirst(c) == 1

\* if (chapterId) setCurrentChapter(parseInt(chapterId, 10)) else setCurrentChapter(1)
chapterFromParam(c) == IF c = NoChapterParam THEN 1 ELSE c

\* faulty variant: an entry holding the error message counts as missing
greekEffectRetry(lang, gt, cur, bookNum) ==
    IF lang = "greek" /\ (cur \notin DOMAIN gt \/ gt[cur].kind = "error")
    THEN << <<bookNum, cur>> >> ELSE <<>>

\* the body of the Greek effect and of the test in handleLanguageToggle:
\* the fetches it starts
greekEffect(lang, gt, cur, bookNum) ==
    IF lang = "greek" /\ cur \notin DOMAIN gt THEN << <<bookNum, cur>> >> ELSE <<>>

RECURSIVE addKeys(_, _, _)
addKeys(bag, keys, k) ==
    IF k > Len(keys) THEN bag
    ELSE addKeys(bag (+) SetToBag({keys[k]}), keys, k + 1)

\* what fetchGreekText stores for a response
FetchOutcomes == {"passage", "unavailable", "error"}

\* faulty variant: every response without text stores the 'not available'
\* message
storedNotAvailable(outcome, key) ==
    IF outcome = "passage"
    THEN [kind |-> "passage", book |-> key[1], chapter |-> key[2]]
    ELSE [kind |-> "unavailable", book |-> 0, chapter |-> 0]

stored(outcome, key) ==
    IF outcome = "passage"
    THEN [kind |-> "passage", book |-> key[1], chapter |-> key[2]]
    ELSE [kind |-> outcome, book |-> 0, chapter |-> 0]

\* faulty variant: the entry is stored under the book of the fetch
cacheWriteByBook(gt, key, outcome) == (key[1] :> stored(outcome, key)) @@ gt

\* faulty variant: the new entry replaces the cache
cacheWriteAlone(gt, key, outcome) == (key[2] :> stored(outcome, key))

\* setGreekText(prev => ({...prev, [chapter]: ...}))
cacheWrite(gt, key, outcome) == (key[2] :> stored(outcome, key)) @@ gt

\* what the Greek panel shows for a chapter: greekText || 'Loading Greek text...'
Loading == [kind |-> "loading", book |-> 0, chapter |-> 0]

greekPanel(gt, cur) == IF cur \in DOMAIN gt THEN gt[cur] ELSE Loading

\* bookData.chapters.map(ch => ch.id).sort((a, b) => a - b)
RECURSIVE insertId(_, _)
insertId(sorted, id) ==
    IF sorted = <<>> THEN <<id>>
    ELSE IF sorted[Len(sorted)] <= id THEN Append(sorted, id)
         ELSE Append(insertId(SubSeq(sorted, 1, Len(sorted) - 1), id), sorted[Len(sorted)])

RECURSIVE chapterIdsFrom(_, _, _)
chapterIdsFrom(chapters, k, sorted) ==
    IF k > Len(chapters) THEN sorted
    ELSE chapterIdsFrom(chapters, k + 1, insertId(sorted, chapters[k].id))

chapterIds(bookData) == chapterIdsFrom(bookData.chapters, 1, <<>>)

\* chapterIds.indexOf(cur), counted from 1; 0 when absent
RECURSIVE indexFrom(_, _, _)
indexFrom(ids, x, k) ==
    IF k > Len(ids) THEN 0 ELSE IF ids[k] = x THEN k ELSE indexFrom(ids, x, k + 1)

indexOf(ids, x) == indexFrom(ids, x, 1)

bookNum == path.bookId
bookData == bookDataOf(bookTexts, bookNum)

\* TextPanel shows the chapter and its controls
textPanelShown ==
    /\ path.view = "book"
    /\ bookData # NoBook
    /\ chapterDataOf(bookData, currentChapter) # NoChapter

\* what ReadingView puts on the page
readingScreen ==
    IF bookData = NoBook THEN "Book not found..."
    ELSE IF chapterDataOf(bookData, currentChapter) = NoChapter THEN "Loading chapter..."
    ELSE "text and map"

---------------------------------------------------------------------------
(* MapPanel: the base layers and the temporal boundary overlay *)

\* bookInfo?.dateRange is undefined
NoRange == [book |-> 0, start |-> 0, end |-> 0]

\* the dateRange object of the entry of book b: every entry has an object of
\* its own, which the effect's dependency check tells apart by identity
dateRange(b, start, end) == [book |-> b, start |-> start, end |-> end]

\* booksIndex?.books?.find(b => b.id === bookNum)?.dateRange
dateRangeOf(bi, b) == IF b \in DOMAIN bi THEN bi[b].dateRange ELSE NoRange

\* books.json of the session: book 1 has a date range, book 2 has none
sessionIndex ==
    [b \in {1, 2} |->
        [id |-> b, dateRange |-> IF b = 1 THEN dateRange(1, -560, -479) ELSE NoRange]]

\* e.name.toLowerCase()
toLowerCase(s) ==
    [i \in 1..Len(s) |->
        IF \E k \in 1..Len(UpperCase) : UpperCase[k] = s[i]
        THEN LowerCase[CHOOSE k \in 1..Len(UpperCase) : UpperCase[k] = s[i]]
        ELSE s[i]]

\* s.includes(sub)
includes(s, sub) ==
    \E i \in 0..(Len(s) - Len(sub)) : SubSeq(s, i + 1, i + Len(sub)) = sub

\* the names of the <BaseLayer>s of MapPanel
SatelliteImagery ==
    <<"S", "a", "t", "e", "l", "l", "i", "t", "e", " ", "I", "m", "a", "g", "e", "r", "y">>
ModernPoliticalMap ==
    <<"M", "o", "d", "e", "r", "n", " ", "P", "o", "l", "i", "t", "i", "c", "a", "l",
      " ", "M", "a", "p">>
CawmAncientWorld ==
    <<"C", "A", "W", "M", " ", "A", "n", "c", "i", "e", "n", "t", " ", "W", "o", "r", "l", "d">>
\* the name of a layer the handler does not know
Terrain == <<"T", "e", "r", "r", "a", "i", "n">>

LayerNames == {SatelliteImagery, ModernPoliticalMap, CawmAncientWorld, Terrain}

\* faulty variant: a name that is not known selects the satellite layer
onLayerChangeDefault(name, active) ==
    LET layerName == toLowerCase(name)
    IN IF includes(layerName, <<"p", "o", "l", "i", "t", "i", "c", "a", "l">>) THEN "political"
       ELSE IF includes(layerName, <<"c", "a", "w", "m">>) THEN "cawm"
       ELSE "satellite"

\* handleBaseLayerChange of LayerChangeHandler: the value of activeBaseLayer
\* after the event
onLayerChange(name, active) ==
    LET layerName == toLowerCase(name)
    IN IF includes(layerName, <<"s", "a", "t", "e", "l", "l", "i", "t", "e">>) THEN "satellite"
       ELSE IF includes(layerName, <<"p", "o", "l", "i", "t", "i", "c", "a", "l">>)
            THEN "political"
       ELSE IF includes(layerName, <<"c", "a", "w", "m">>) THEN "cawm"
       ELSE active

\* faulty variant: the effect returns no cleanup
temporalMapLayerEffectNoCleanup(layers, mounted, prevRange, prevActive, range, active) ==
    LET depsChanged == ~mounted \/ prevRange # range \/ prevActive # active
    IN IF ~depsChanged \/ ~active \/ range = NoRange THEN layers
       ELSE Append(layers, [dateRange |-> range])

\* the effect of TemporalMapLayer on [map, dateRange, isActive]: when a
\* dependency has changed, the cleanup of the previous run removes the layer
\* that run added, then the body adds a layer if isActive && dateRange
temporalMapLayerEffect(layers, mounted, prevRange, prevActive, range, active) ==
    LET depsChanged == ~mounted \/ prevRange # range \/ prevActive # active
        hadLayer == mounted /\ prevActive /\ prevRange # NoRange
        cleaned == IF hadLayer THEN SubSeq(layers, 1, Len(layers) - 1) ELSE layers
    IN IF ~depsChanged THEN layers
       ELSE IF ~active \/ range = NoRange THEN cleaned
       ELSE Append(cleaned, [dateRange |-> range])

\* MapPanel and the effects below it after a render of ReadingView for book
\* b: it mounts with the satellite layer, keeps its state while it stays on
\* the page, and is gone with 'Book not found...'
renderMapPanel(b) ==
    LET wasShown == path.view = "book" /\ bookDataOf(bookTexts, path.bookId) # NoBook
        nowShown == bookDataOf(bookTexts, b) # NoBook
    IN IF ~nowShown
       THEN /\ activeBaseLayer' = "satellite"
            /\ temporalLayers' = <<>>
       ELSE IF ~wasShown
       THEN /\ activeBaseLayer' = "satellite"
            /\ temporalLayers' = temporalMapLayerEffect(<<>>, FALSE, NoRange, FALSE,
                                    dateRangeOf(booksIndex, b), FALSE)
       ELSE /\ activeBaseLayer' = activeBaseLayer
            /\ temporalLayers' = temporalMapLayerEffect(temporalLayers, TRUE,
                                    dateRangeOf(booksIndex, path.bookId),
                                    activeBaseLayer = "cawm",
                                    dateRangeOf(booksIndex, b), activeBaseLayer = "cawm")

\* the render of ReadingView, and of TextPanel and MapPanel below it
renderReading(b, cur, sel, hl) ==
    LET data == bookDataOf(bookTexts, b) IN
    /\ mapPlaces' = IF data = NoBook THEN NotRendered
                    ELSE getMemoryPlaces(data, placesData, cur)
    /\ segments' = IF data = NoBook THEN <<>>
                   ELSE annotatedText(chapterDataOf(data, cur), placesData, sel, hl)
    /\ unlocatedPlaces' = IF data = NoBook THEN <<>>
                          ELSE unlocatedOf(chapterDataOf(data, cur), placesData)
    /\ selectedBook' = 1
    /\ bookPlaces' = <<>>
    /\ coMarkers' = NoDetail
    /\ renderMapPanel(b)

\* ReadingView is taken off the page: its state is gone, and a response
\* that arrives later sets the state of a component that is no longer there
unmountReading ==
    /\ currentChapter' = 1
    /\ selectedPlace' = NoPlace
    /\ highlightedPlaces' = {}
    /\ language' = "english"
    /\ greekText' = <<>>
    /\ inflight' = EmptyBag
    /\ requests' = EmptyBag
    /\ mapPlaces' = NotRendered
    /\ segments' = <<>>
    /\ unlocatedPlaces' = <<>>
    /\ activeBaseLayer' = "satellite"
    /\ temporalLayers' = <<>>

\* the list and the markers of PlaceDetailView
detailOf(pd, p) ==
    IF p \notin DOMAIN pd THEN NoDetail
    ELSE LET list == coOccurringPlaces(pd, p)
         IN [found |-> TRUE, occurrences |-> occurrencesByBook(pd, p),
             list |-> list, markers |-> coOccurrenceMarkers(list)]

---------------------------------------------------------------------------
(* Navigation *)

\* the location becomes /book/b or /book/b/chapter/c (a deep link, a link of
\* the place page, the address bar): ReadingView mounts, or stays mounted and
\* keeps its state when it was shown already
OpenBook(b, c) ==
    /\ path # bookPath(b, c)
    /\ LET mounted == path.view = "book"
           cur1    == IF ~mounted \/ path.chapterId # c
                      THEN chapterFromParam(c) ELSE currentChapter
           \* the Greek effect after the first render, then after the render
           \* that follows setCurrentChapter
           first   == IF ~mounted \/ path.bookId # b
                      THEN greekEffect(language, greekText, currentChapter, b) ELSE <<>>
           second  == IF cur1 # currentChapter
                      THEN greekEffect(language, greekText, cur1, b) ELSE <<>>
           issued  == first \o second
       IN /\ BagCardinality(inflight) + Len(issued) <= MaxInFlight
          /\ path' = bookPath(b, c)
          /\ currentChapter' = cur1
          /\ inflight' = addKeys(inflight, issued, 1)
          /\ requests' = addKeys(requests, issued, 1)
          /\ renderReading(b, cur1, selectedPlace, highlightedPlaces)
    /\ lastEvent' = event("open", NoPlace, FALSE)
    /\ UNCHANGED <<dataVars, scriptVars, selectedPlace, highlightedPlaces, language,
                   greekText>>

\* the location becomes /place/p
OpenPlace(p) ==
    /\ path # placePath(p)
    /\ path' = placePath(p)
    /\ unmountReading
    /\ selectedBook' = 1
    /\ bookPlaces' = <<>>
    /\ coMarkers' = detailOf(placesData, p)
    /\ lastEvent' = event("open", NoPlace, FALSE)
    /\ UNCHANGED <<dataVars, scriptVars, scriptVars>>

\* the location becomes / (the Books links): SummaryView mounts
GoSummary ==
    /\ path # summaryPath
    /\ path' = summaryPath
    /\ unmountReading
    /\ selectedBook' = 1
    /\ bookPlaces' = computeBookPlaces(placesData, 1)
    /\ coMarkers' = NoDetail
    /\ lastEvent' = event("home", NoPlace, FALSE)
    /\ UNCHANGED <<dataVars, scriptVars, scriptVars>>

---------------------------------------------------------------------------
(* SummaryView *)

handleBookClick(b) ==
    /\ path = summaryPath
    /\ selectedBook' = b
    /\ bookPlaces' = computeBookPlaces(placesData, b)
    /\ lastEvent' = event("bookClick", NoPlace, FALSE)
    /\ UNCHANGED <<dataVars, scriptVars, path, readingVars, mapPlaces, segments,
                   unlocatedPlaces, coMarkers, mapVars>>

\* navigate(`/book/${bookId}`)
handleBookDoubleClick(b) ==
    /\ path = summaryPath
    /\ path' = bookPath(b, NoChapterParam)
    /\ renderReading(b, currentChapter, selectedPlace, highlightedPlaces)
    /\ lastEvent' = event("bookDoubleClick", NoPlace, FALSE)
    /\ UNCHANGED <<dataVars, scriptVars, readingVars>>

---------------------------------------------------------------------------
(* ReadingView *)

\* faulty variant: the selection survives the chapter change
handleChapterChangeKeepsSelection(newChapter) ==
    LET issued == IF newChapter # currentChapter
                  THEN greekEffect(language, greekText, newChapter, bookNum) ELSE <<>>
    IN /\ BagCardinality(inflight) + Len(issued) <= MaxInFlight
       /\ currentChapter' = newChapter
       /\ path' = bookPath(bookNum, newChapter)
       /\ inflight' = addKeys(inflight, issued, 1)
       /\ requests' = addKeys(requests, issued, 1)
       /\ renderReading(bookNum, newChapter, selectedPlace, highlightedPlaces)
       /\ UNCHANGED <<dataVars, scriptVars, selectedPlace, highlightedPlaces, language,
                   greekText>>

\* handleChapterChange(newChapter), the Greek effect and the render after it
handleChapterChange(newChapter) ==
    LET issued == IF newChapter # currentChapter
                  THEN greekEffect(language, greekText, newChapter, bookNum) ELSE <<>>
    IN /\ BagCardinality(inflight) + Len(issued) <= MaxInFlight
       /\ currentChapter' = newChapter
       /\ path' = bookPath(bookNum, newChapter)
       /\ selectedPlace' = NoPlace
       /\ highlightedPlaces' = {}
       /\ inflight' = addKeys(inflight, issued, 1)
       /\ requests' = addKeys(requests, issued, 1)
       /\ renderReading(bookNum, newChapter, NoPlace, {})
       /\ UNCHANGED <<dataVars, scriptVars, language, greekText>>

handlePrev ==
    /\ textPanelShown
    /\ LET ids == chapterIds(bookData)
           currentIndex == indexOf(ids, currentChapter)
       IN /\ currentIndex > 1
          /\ handleChapterChange(ids[currentIndex - 1])
    /\ lastEvent' = event("prev", NoPlace, FALSE)

handleNext ==
    /\ textPanelShown
    /\ LET ids == chapterIds(bookData)
           currentIndex == indexOf(ids, currentChapter)
       IN /\ currentIndex >= 1
          /\ currentIndex < Len(ids)
          /\ handleChapterChange(ids[currentIndex + 1])
    /\ lastEvent' = event("next", NoPlace, FALSE)

\* the chapter <select> changes to another of its options
handleChapterSelect(id) ==
    /\ textPanelShown
    /\ indexOf(chapterIds(bookData), id) > 0
    /\ id # currentChapter
    /\ handleChapterChange(id)
    /\ lastEvent' = event("select", NoPlace, FALSE)

\* handlePlaceClick(placeId) and the render after it
handlePlaceClick(placeId) ==
    /\ selectedPlace' = placeId
    /\ highlightedPlaces' = {placeId}
    /\ renderReading(bookNum, currentChapter, placeId, {placeId})
    /\ UNCHANGED <<dataVars, scriptVars, path, currentChapter, language, greekText,
                   inflight, requests>>

\* a click on the k-th segment of the English text, a place mention: the
\* <Link> of a place with coordinates calls onPlaceClick, the <span> of a
\* place without has no handler
MentionClick(k) ==
    /\ textPanelShown
    /\ language = "english"
    /\ k \in 1..Len(segments)
    /\ segments[k].type = "place"
    /\ IF segments[k].hasCoords
       THEN handlePlaceClick(segments[k].placeId)
       ELSE UNCHANGED <<dataVars, scriptVars, path, readingVars, mapPlaces, segments,
                        unlocatedPlaces, otherViewVars, mapVars>>
    /\ lastEvent' = event("click", segments[k].placeId, segments[k].hasCoords)

\* a double click on the k-th segment: the two clicks, then the <Link> sets
\* window.location.href to #/place/id
MentionDoubleClick(k) ==
    /\ textPanelShown
    /\ language = "english"
    /\ k \in 1..Len(segments)
    /\ segments[k].type = "place"
    /\ IF segments[k].hasCoords
       THEN /\ path' = placePath(segments[k].placeId)
            /\ unmountReading
            /\ selectedBook' = 1
            /\ bookPlaces' = <<>>
            /\ coMarkers' = detailOf(placesData, segments[k].placeId)
            /\ UNCHANGED <<dataVars, scriptVars, scriptVars>>
       ELSE UNCHANGED <<dataVars, scriptVars, path, readingVars, mapPlaces, segments,
                        unlocatedPlaces, otherViewVars, mapVars>>
    /\ lastEvent' = event("doubleClick", segments[k].placeId, segments[k].hasCoords)

\* a click on the marker of a current or memory place:
\* navigate(`/place/${placeId}`)
handleMapPlaceClick(placeId) ==
    /\ path.view = "book"
    /\ bookData # NoBook
    /\ \/ \E k \in 1..Len(mapPlaces.current) : mapPlaces.current[k].id = placeId
       \/ \E k \in 1..Len(mapPlaces.memory) : mapPlaces.memory[k].id = placeId
    /\ path' = placePath(placeId)
    /\ unmountReading
    /\ selectedBook' = 1
    /\ bookPlaces' = <<>>
    /\ coMarkers' = detailOf(placesData, placeId)
    /\ lastEvent' = event("markerClick", placeId, TRUE)
    /\ UNCHANGED <<dataVars, scriptVars, scriptVars>>

\* handleLanguageToggle, the Greek effect (language is one of its
\* dependencies) and the render after it
handleLanguageToggle ==
    /\ textPanelShown
    /\ LET newLang == IF language = "english" THEN "greek" ELSE "english"
           direct  == greekEffect(newLang, greekText, currentChapter, bookNum)
           effect  == greekEffect(newLang, greekText, currentChapter, bookNum)
           issued  == direct \o effect
       IN /\ BagCardinality(inflight) + Len(issued) <= MaxInFlight
          /\ language' = newLang
          /\ inflight' = addKeys(inflight, issued, 1)
          /\ requests' = addKeys(requests, issued, 1)
    /\ lastEvent' = event("toggle", NoPlace, FALSE)
    /\ UNCHANGED <<dataVars, scriptVars, path, currentChapter, selectedPlace, highlightedPlaces,
                   greekText, mapPlaces, segments, unlocatedPlaces, otherViewVars,
                   mapVars>>

\* the response to a fetch of fetchGreekText(key[1], key[2]) arrives:
\* setGreekText(prev => ({...prev, [chapter]: ...})), then the Greek effect
\* (greekText is one of its dependencies)
fetchGreekTextCompletes(key, outcome) ==
    /\ path.view = "book"
    /\ BagIn(key, inflight)
    /\ LET gt     == cacheWrite(greekText, key, outcome)
           issued == greekEffect(language, gt, currentChapter, bookNum)
       IN /\ greekText' = gt
          /\ inflight' = addKeys(inflight (-) SetToBag({key}), issued, 1)
          /\ requests' = addKeys(requests, issued, 1)
    /\ lastEvent' = event(outcome, NoPlace, FALSE)
    /\ UNCHANGED <<dataVars, scriptVars, path, currentChapter, selectedPlace, highlightedPlaces,
                   language, mapPlaces, segments, unlocatedPlaces, otherViewVars,
                   mapVars>>

\* the map fires 'baselayerchange' with the name of a layer:
\* handleBaseLayerChange, setActiveBaseLayer, the render of MapPanel and the
\* effect of TemporalMapLayer
handleBaseLayerChange(name) ==
    /\ path.view = "book"
    /\ bookData # NoBook
    /\ LET active == onLayerChange(name, activeBaseLayer)
           range  == dateRangeOf(booksIndex, bookNum)
       IN /\ activeBaseLayer' = active
          /\ temporalLayers' = temporalMapLayerEffect(temporalLayers, TRUE, range,
                                    activeBaseLayer = "cawm", range, active = "cawm")
    /\ lastEvent' = event("baselayerchange", NoPlace, FALSE)
    /\ UNCHANGED <<dataVars, scriptVars, path, readingVars, mapPlaces, segments,
                   unlocatedPlaces, otherViewVars>>

---------------------------------------------------------------------------
(* scripts/fetch-greek-text.js: the bulk fetch of the Greek text *)

\* what fetchGreekText(bookId, chapter) can come back with: the trimmed text
\* of the passage, '' for a passage without text, null without a passage
\* node, null after an error
ScriptReplies == {"passage", "blank", "nopassage", "error"}

fetchedText(reply, bookId, chapter) ==
    IF reply = "passage" THEN [kind |-> "text", book |-> bookId, chapter |-> chapter]
    ELSE IF reply = "blank" THEN [kind |-> "empty", book |-> 0, chapter |-> 0]
    ELSE [kind |-> "null", book |-> 0, chapter |-> 0]

\* if (text)
truthyText(text) == text.kind = "text"

\* faulty variant: whatever came back is stored
storeTextAlways(all, bookId, chapter, text) ==
    (bookId :> ((chapter :> text) @@ all[bookId])) @@ all

\* if (text) { allText[book.id][chapter] = text }
storeText(all, bookId, chapter, text) ==
    IF truthyText(text) THEN (bookId :> ((chapter :> text) @@ all[bookId])) @@ all
    ELSE all

\* the two loops from the test `chapter <= book.maxChapterId` on: the next
\* request, or the end of the loops; entering a book sets allText[book.id] = {}
RECURSIVE loopFrom(_, _, _, _)
loopFrom(books, b, chapter, all) ==
    IF b > Len(books) THEN [finished |-> TRUE, book |-> b, chapter |-> chapter, all |-> all]
    ELSE IF chapter <= books[b].maxChapterId
         THEN [finished |-> FALSE, book |-> b, chapter |-> chapter, all |-> all]
         ELSE IF b + 1 > Len(books)
              THEN [finished |-> TRUE, book |-> b + 1, chapter |-> 1, all |-> all]
              ELSE loopFrom(books, b + 1, 1, (books[b + 1].id :> <<>>) @@ all)

\* the run up to the next await: a request is sent, or the collected text is
\* written and the run is over
continueRun(pos) ==
    /\ scriptBook' = pos.book
    /\ scriptChapter' = pos.chapter
    /\ allText' = pos.all
    /\ IF pos.finished
       THEN /\ scriptPc' = "done"
            /\ outputFile' = Append(outputFile, pos.all)
            /\ fetchLog' = fetchLog
       ELSE /\ scriptPc' = "fetch"
            /\ outputFile' = outputFile
            /\ fetchLog' = Append(fetchLog, [book |-> scriptBooks[pos.book].id,
                                            chapter |-> pos.chapter, reply |-> "pending"])

\* fetchAllGreekText() is called
fetchAllGreekText ==
    /\ scriptPc = "start"
    /\ continueRun(IF scriptBooks = <<>>
                   THEN [finished |-> TRUE, book |-> 1, chapter |-> 1, all |-> <<>>]
                   ELSE loopFrom(scriptBooks, 1, 1, (scriptBooks[1].id :> <<>>)))
    /\ UNCHANGED <<appVars, scriptBooks>>

\* `await fetchGreekText(book.id, chapter)` returns; the delay starts
fetchGreekTextReturns(reply) ==
    /\ scriptPc = "fetch"
    /\ LET bookId == scriptBooks[scriptBook].id
       IN /\ allText' = storeText(allText, bookId, scriptChapter,
                                  fetchedText(reply, bookId, scriptChapter))
          /\ fetchLog' = [fetchLog EXCEPT ![Len(fetchLog)].reply = reply]
    /\ scriptPc' = "delay"
    /\ UNCHANGED <<appVars, scriptBooks, scriptBook, scriptChapter, outputFile>>

\* `await delay(100)` returns: chapter++ and the loops go on
delayElapses ==
    /\ scriptPc = "delay"
    /\ continueRun(loopFrom(scriptBooks, scriptBook, scriptChapter + 1, allText))
    /\ UNCHANGED <<appVars, scriptBooks>>

\* the script has not been started
scriptNotRun ==
    /\ scriptBooks = <<>>
    /\ scriptPc = "start"
    /\ scriptBook = 1
    /\ scriptChapter = 1
    /\ allText = <<>>
    /\ fetchLog = <<>>
    /\ outputFile = <<>>

---------------------------------------------------------------------------
(* Spec: a session of the application over one small book                  *)

\* one occurrence record per mention of p, in the order of the text
RECURSIVE occurrencesFrom(_, _, _, _)
occurrencesFrom(book, p, c, m) ==
    IF c > Len(book.chapters) THEN <<>>
    ELSE IF m > Len(book.chapters[c].places) THEN occurrencesFrom(book, p, c + 1, 1)
    ELSE (IF book.chapters[c].places[m].placeId = p
          THEN <<[book |-> book.id, chapter |-> book.chapters[c].id]>> ELSE <<>>)
         \o occurrencesFrom(book, p, c, m + 1)

occurrencesIn(book, p) == occurrencesFrom(book, p, 1, 1)

\* book 1: chapters 1 and 2; "a" and "d" have coordinates, "b" has a record
\* without latitude, "c" has no record
sessionBook ==
    [id |-> 1, chapters |-> <<chapterOf(1, <<"a", "b", "c">>), chapterOf(2, <<"d", "b">>)>>]

sessionGazetteer ==
    [p \in {"a", "b", "d"} |->
        placeRecord(p, IF p = "b" THEN "null" ELSE "38.5", "23.7",
                    occurrencesIn(sessionBook, p))]

SessionPlaces == {"a", "b", "c", "d"}

\* chapter 3 is not in the book
SessionChapterParams == {NoChapterParam, 1, 2, 3}

Init ==
    /\ bookTexts = [b \in {1} |-> sessionBook]
    /\ placesData = sessionGazetteer
    /\ path = summaryPath
    /\ currentChapter = 1
    /\ selectedPlace = NoPlace
    /\ highlightedPlaces = {}
    /\ language = "english"
    /\ greekText = <<>>
    /\ inflight = EmptyBag
    /\ requests = EmptyBag
    /\ lastEvent = NoEvent
    /\ mapPlaces = NotRendered
    /\ segments = <<>>
    /\ unlocatedPlaces = <<>>
    /\ selectedBook = 1
    /\ bookPlaces = computeBookPlaces(placesData, 1)
    /\ coMarkers = NoDetail
    /\ booksIndex = sessionIndex
    /\ activeBaseLayer = "satellite"
    /\ temporalLayers = <<>>
    /\ scriptNotRun

\* the links into the reading view are on the summary page and on the place
\* pages
Next ==
    \/ path.view # "book" /\ \E b \in BookIds, c \in SessionChapterParams : OpenBook(b, c)
    \/ \E p \in SessionPlaces : OpenPlace(p)
    \/ GoSummary
    \/ \E b \in BookIds : handleBookClick(b)
    \/ \E b \in BookIds : handleBookDoubleClick(b)
    \/ handlePrev
    \/ handleNext
    \/ \E id \in 1..2 : handleChapterSelect(id)
    \/ \E k \in 1..Len(segments) : MentionClick(k)
    \/ \E k \in 1..Len(segments) : MentionDoubleClick(k)
    \/ \E p \in SessionPlaces : handleMapPlaceClick(p)
    \/ handleLanguageToggle
    \/ \E b \in BookIds, c \in 1..3, outcome \in FetchOutcomes :
            fetchGreekTextCompletes(<<b, c>>, outcome)

Spec == Init /\ [][Next]_vars

---------------------------------------------------------------------------
(* SpecMemory: the three views rendered for every drawn book, gazetteer    *)
(* and current chapter                                                     *)

\* the gazetteer of the book's places: "a" has coordinates; "b" has no
\* record, or a record in which one coordinate is any token and the other is
\* a number
DrawnGazetteers(book) ==
    LET a == placeRecord("a", "38.5", "23.7", occurrencesIn(book, "a"))
        occ == occurrencesIn(book, "b")
    IN {[p \in {"a"} |-> a]} \cup
       {[p \in PlaceIds |-> IF p = "b" THEN placeRecord("b", lat, "23.7", occ) ELSE a] :
            lat \in CoordTokens} \cup
       {[p \in PlaceIds |-> IF p = "b" THEN placeRecord("b", "38.5", lng, occ) ELSE a] :
            lng \in CoordTokens}

InitMemory ==
    \* one chapter at the start of the book, one anywhere in it
    /\ \E c1 \in {1, 2}, c2 \in 1..MaxChapter :
        \E l1 \in MentionLists \cup {Missing}, l2 \in MentionLists \cup {Missing} :
            /\ bookTexts = [b \in {1} |-> bookWith(c1, l1, c2, l2)]
            /\ placesData \in DrawnGazetteers(bookWith(c1, l1, c2, l2))
    /\ path = summaryPath
    /\ currentChapter = 1
    /\ selectedPlace = NoPlace
    /\ highlightedPlaces = {}
    /\ language = "english"
    /\ greekText = <<>>
    /\ inflight = EmptyBag
    /\ requests = EmptyBag
    /\ lastEvent = NoEvent
    /\ mapPlaces = NotRendered
    /\ segments = <<>>
    /\ unlocatedPlaces = <<>>
    /\ selectedBook = 1
    /\ bookPlaces = computeBookPlaces(placesData, 1)
    /\ coMarkers = NoDetail
    /\ booksIndex = sessionIndex
    /\ activeBaseLayer = "satellite"
    /\ temporalLayers = <<>>
    /\ scriptNotRun

\* from the summary page: a book is selected, or the reading view is opened
\* at /book/1/chapter/n, or the page of a place is opened
NextMemory ==
    /\ path = summaryPath
    /\ \/ \E n \in 0..(MaxChapter + 1) : OpenBook(1, n)
       \/ \E b \in BookIds : handleBookClick(b)
       \/ \E p \in PlaceIds : OpenPlace(p)

SpecMemory == InitMemory /\ [][NextMemory]_vars

---------------------------------------------------------------------------
(* Notions the claims are stated in, read off the data and not off the     *)
(* code's intermediate results                                             *)

theBook == bookDataOf(bookTexts, path.bookId)

readingShown == path.view = "book" /\ theBook # NoBook

chapterExists(book, id) ==
    \E k \in 1..Len(book.chapters) : book.chapters[k].id = id

\* the place ids mentioned in the chapter of this id (none if it is missing)
mentionedIn(book, id) ==
    LET ks == {k \in 1..Len(book.chapters) : book.chapters[k].id = id} IN
    IF ks = {} THEN {}
    ELSE LET k == CHOOSE x \in ks : \A y \in ks : x <= y
         IN {book.chapters[k].places[j].placeId :
                j \in 1..Len(book.chapters[k].places)}

\* the place has a gazetteer record with a latitude and a longitude
coordinateBearing(pd, p) ==
    p \in DOMAIN pd /\ pd[p].lat # "null" /\ pd[p].lng # "null"

\* the distances 1..10 at which the window of chapter n mentions place p
mentionDistances(book, n, p) ==
    {d \in 1..10 : n - d >= 1 /\ p \in mentionedIn(book, n - d)}

idsOf(list) == {list[k].id : k \in 1..Len(list)}

noRepeat(list) ==
    \A i \in 1..Len(list), j \in 1..Len(list) : list[i].id = list[j].id => i = j

---------------------------------------------------------------------------
(* C1..C4: the memory-window place selector, under SpecMemory *)

\* C1: the output of getMemoryPlaces has no place id in both 'current' and
\* 'memory', and neither list holds the same place id twice.
C1_DisjointNoRepeat ==
    readingShown =>
        /\ idsOf(mapPlaces.current) \cap idsOf(mapPlaces.memory) = {}
        /\ noRepeat(mapPlaces.current)
        /\ noRepeat(mapPlaces.memory)

\* C1 witness: a place with coordinates is mentioned twice in the current
\* chapter and again in the chapter before it, while another place is kept
\* in memory.
C1_Witness ==
    /\ readingShown
    /\ Len(mapPlaces.current) = 1 /\ Len(mapPlaces.memory) = 1
    /\ \E k \in 1..Len(theBook.chapters) :
        /\ theBook.chapters[k].id = currentChapter
        /\ Len(theBook.chapters[k].places) = 2
        /\ theBook.chapters[k].places[1].placeId = theBook.chapters[k].places[2].placeId
    /\ mapPlaces.current[1].id \in mentionedIn(theBook, currentChapter - 1)

C3_MostRecentMention ==
    readingShown =>
        \A k \in 1..Len(mapPlaces.memory) :
            LET e  == mapPlaces.memory[k]
                ds == mentionDistances(theBook, currentChapter, e.id)
            IN /\ ds # {}
               /\ \A d \in ds : e.memoryChapter >= currentChapter - d
               /\ \A d \in ds : e.opacity >= 100 - (d * 9)
               /\ \E d \in ds : /\ e.memoryChapter = currentChapter - d
                                /\ e.opacity = 100 - (d * 9)

\* C3 witness: a place kept in memory is mentioned in two chapters of the
\* window.
C3_Witness ==
    /\ readingShown
    /\ \E k \in 1..Len(mapPlaces.memory) :
        Cardinality(mentionDistances(theBook, currentChapter, mapPlaces.memory[k].id)) = 2

\* C4: 'memory' holds exactly the coordinate-bearing places mentioned in an
\* existing chapter with id in [max(1, N-10), N-1] and not mentioned in
\* chapter N.
C4_ExactWindow ==
    readingShown =>
        idsOf(mapPlaces.memory) =
            {p \in PlaceIds :
                /\ coordinateBearing(placesData, p)
                /\ p \notin mentionedIn(theBook, currentChapter)
                /\ \E c \in Max(1, currentChapter - 10)..(currentChapter - 1) :
                        chapterExists(theBook, c) /\ p \in mentionedIn(theBook, c)}

\* C5: a place without a gazetteer record, or whose record has no latitude
\* or no longitude, is in none of the plottable outputs: the 'current' and
\* 'memory' lists of the reading view, the bookPlaces of the summary view,
\* the co-occurrence markers of the place page.
C5_NoCoordsNeverPlotted ==
    \A p \in PlaceIds :
        ~coordinateBearing(placesData, p) =>
            /\ p \notin idsOf(mapPlaces.current)
            /\ p \notin idsOf(mapPlaces.memory)
            /\ p \notin idsOf(bookPlaces)
            /\ p \notin idsOf(coMarkers.markers)

\* C5 witness: on a place page, a place without coordinates is in the
\* co-occurrence list, so that only the marker filter keeps it off the map.
C5_Witness ==
    /\ path.view = "place"
    /\ \E k \in 1..Len(coMarkers.list) :
        ~coordinateBearing(placesData, coMarkers.list[k].id)

---------------------------------------------------------------------------
(* SpecText: annotatedText applied to every drawn chapter text and mention *)
(* list                                                                    *)

\* a text of n characters, each telling its position
drawnText(n) == [i \in 1..n |-> ToString(i)]

\* a mention of place p over the offsets s..e, named by the characters it
\* spans or by another name
drawnMention(text, p, s, e, spanned) ==
    [placeId |-> p,
     name |-> IF spanned THEN SubSeq(text, s + 1, Min(e, Len(text))) ELSE <<"N">>,
     startOffset |-> s, endOffset |-> e]

DrawnMentions(text) ==
    UNION {{drawnMention(text, p, s, e, spanned) :
                p \in PlaceIds, e \in s..MaxTextLen, spanned \in BOOLEAN} :
           s \in 0..MaxTextLen}

\* the chapter of id 1 with this text and these mentions
drawnChapter(text, ms) ==
    [id |-> 1, text |-> text, places |-> [i \in 1..Len(ms) |-> ms[i]]]

\* "a" has coordinates, "b" has a record without a latitude
textGazetteer ==
    [p \in PlaceIds |-> IF p = "a" THEN placeRecord("a", "38.5", "23.7", <<>>)
                        ELSE placeRecord("b", "null", "23.7", <<>>)]

InitText ==
    \* a text of up to MaxTextLen characters with up to two mentions, in any
    \* order
    /\ \E n \in 0..MaxTextLen, k \in 0..2 :
        \E ms \in [1..k -> DrawnMentions(drawnText(n))] :
            bookTexts = [b \in {1} |->
                            [id |-> 1, chapters |-> <<drawnChapter(drawnText(n), ms)>>]]
    /\ placesData = textGazetteer
    /\ path = summaryPath
    /\ currentChapter = 1
    /\ selectedPlace = NoPlace
    /\ highlightedPlaces = {}
    /\ language = "english"
    /\ greekText = <<>>
    /\ inflight = EmptyBag
    /\ requests = EmptyBag
    /\ lastEvent = NoEvent
    /\ mapPlaces = NotRendered
    /\ segments = <<>>
    /\ unlocatedPlaces = <<>>
    /\ selectedBook = 1
    /\ bookPlaces = computeBookPlaces(placesData, 1)
    /\ coMarkers = NoDetail
    /\ booksIndex = sessionIndex
    /\ activeBaseLayer = "satellite"
    /\ temporalLayers = <<>>
    /\ scriptNotRun

\* the reading view is opened from the summary page at /book/1/chapter/1,
\* and the mentions of the chapter are clicked
NextText ==
    \/ path = summaryPath /\ OpenBook(1, 1)
    \/ \E k \in 1..Len(segments) : MentionClick(k)
    \/ \E k \in 1..Len(segments) : MentionDoubleClick(k)

SpecText == InitText /\ [][NextText]_vars

---------------------------------------------------------------------------
(* C6, C7: the offset-based text annotation, under SpecText *)

theChapter == chapterDataOf(theBook, currentChapter)

RECURSIVE concatShown(_, _)
concatShown(segs, k) ==
    IF k > Len(segs) THEN <<>> ELSE shownText(segs[k]) \o concatShown(segs, k + 1)

\* the mentions lie in the text, each spans at least one character, and each
\* ends at or before the start of the next
increasingOffsets(text, ms) ==
    /\ \A i \in 1..Len(ms) :
        ms[i].startOffset < ms[i].endOffset /\ ms[i].endOffset <= Len(text)
    /\ \A i \in 1..(Len(ms) - 1) : ms[i].endOffset <= ms[i + 1].startOffset

\* every mention is named by the characters between its offsets
namedBySpan(text, ms) ==
    \A i \in 1..Len(ms) :
        ms[i].name = [j \in 1..(ms[i].endOffset - ms[i].startOffset) |->
                          text[ms[i].startOffset + j]]

\* C6 as stated: for any mention list whose offsets are non-overlapping and
\* increasing, the concatenated segments reproduce the chapter text.
C6_ConcatAnyNames ==
    (readingShown /\ increasingOffsets(theChapter.text, theChapter.places))
        => concatShown(segments, 1) = theChapter.text

\* the segments in order, a place segment standing for the characters its
\* mention spans (the j-th place segment is the j-th mention of an increasing
\* list)
RECURSIVE concatSpans(_, _, _, _, _)
concatSpans(segs, ms, text, k, j) ==
    IF k > Len(segs) THEN <<>>
    ELSE IF segs[k].type = "text"
         THEN segs[k].content \o concatSpans(segs, ms, text, k + 1, j)
         ELSE SubSeq(text, ms[j].startOffset + 1, ms[j].endOffset)
              \o concatSpans(segs, ms, text, k + 1, j + 1)

\* C6 amended: for any mention list whose offsets are non-overlapping and
\* increasing, the segments in order cover the chapter text exactly when a
\* place segment is read as the characters its mention spans; what the page
\* shows (the content of a text segment, the name of a place segment)
\* reproduces the chapter text when every mention is named by the characters
\* it spans.
C6_ConcatSpannedNames ==
    (readingShown /\ increasingOffsets(theChapter.text, theChapter.places))
        => /\ concatSpans(segments, theChapter.places, theChapter.text, 1, 1)
                = theChapter.text
           /\ namedBySpan(theChapter.text, theChapter.places)
                => concatShown(segments, 1) = theChapter.text

\* C6 witness: text, mention, text, mention, text.
C6_Witness ==
    /\ readingShown
    /\ increasingOffsets(theChapter.text, theChapter.places)
    /\ namedBySpan(theChapter.text, theChapter.places)
    /\ Len(theChapter.places) = 2
    /\ Len(segments) = 5

\* the positions of the place segments, in order
placePositions(segs) ==
    SelectSeq([k \in 1..Len(segs) |-> k], LAMBDA k : segs[k].type = "place")

\* the place segments are the mentions, taken in ascending start offset
mentionsAscending(segs, ms) ==
    LET pos == placePositions(segs) IN
    /\ Len(pos) = Len(ms)
    /\ \E f \in [1..Len(ms) -> 1..Len(ms)] :
        /\ \A i \in 1..Len(ms), j \in 1..Len(ms) : f[i] = f[j] => i = j
        /\ \A i \in 1..Len(ms) :
            /\ segs[pos[i]].placeId = ms[f[i]].placeId
            /\ segs[pos[i]].name = ms[f[i]].name
        /\ \A i \in 1..(Len(ms) - 1) :
            ms[f[i]].startOffset <= ms[f[i + 1]].startOffset

\* C7 as stated: the mentions are listed in ascending start offset and no two
\* consecutive segments have the same type (checked on the mention lists
\* whose offsets are non-overlapping and increasing).
C7_StrictAlternation ==
    (readingShown /\ increasingOffsets(theChapter.text, theChapter.places))
        => /\ mentionsAscending(segments, theChapter.places)
           /\ \A k \in 1..(Len(segments) - 1) :
                segments[k].type # segments[k + 1].type

\* C7 amended: the mentions are listed in ascending start offset and no two
\* consecutive segments are both plain text; for a non-overlapping,
\* increasing mention list two successive mentions are separated by one
\* plain-text segment when characters lie between them and by none when the
\* second starts where the first ends.
C7_AlternationUpToAdjacency ==
    readingShown =>
        /\ mentionsAscending(segments, theChapter.places)
        /\ \A k \in 1..(Len(segments) - 1) :
            ~(segments[k].type = "text" /\ segments[k + 1].type = "text")
        /\ increasingOffsets(theChapter.text, theChapter.places) =>
            LET pos == placePositions(segments)
                ms  == theChapter.places
            IN \A i \in 1..(Len(ms) - 1) :
                pos[i + 1] - pos[i] =
                    IF ms[i + 1].startOffset > ms[i].endOffset THEN 2 ELSE 1

\* C7 witness: two mentions with no character between them, text before and
\* after.
C7_Witness ==
    /\ readingShown
    /\ increasingOffsets(theChapter.text, theChapter.places)
    /\ Len(theChapter.places) = 2
    /\ theChapter.places[1].endOffset = theChapter.places[2].startOffset
    /\ Len(segments) = 4
    /\ segments[2].type = "place" /\ segments[3].type = "place"


---------------------------------------------------------------------------
(* C8: mentions and their segments, under SpecText *)

placeSegments(segs) == SelectSeq(segs, LAMBDA seg : seg.type = "place")

\* how many entries of the list carry this place id and this name
copies(list, placeId, name) ==
    Cardinality({k \in 1..Len(list) : list[k].placeId = placeId /\ list[k].name = name})

oneSegmentPerMention ==
    textPanelShown =>
        LET ps == placeSegments(segments)
            ms == chapterDataOf(bookData, currentChapter).places
        IN /\ Len(ps) = Len(ms)
           /\ \A k \in 1..Len(ms) :
                copies(ps, ms[k].placeId, ms[k].name) = copies(ms, ms[k].placeId, ms[k].name)

inertWithoutCoords ==
    (/\ lastEvent'.type \in {"click", "doubleClick"}
     /\ ~coordinateBearing(placesData, lastEvent'.place))
        => UNCHANGED <<selectedPlace, highlightedPlaces, path>>

\* C8: the annotated text has exactly one place segment for every mention of
\* the current chapter, with or without coordinates, and a click or a double
\* click on a mention whose place has no coordinates changes neither
\* selectedPlace nor highlightedPlaces nor the path.
C8_MentionSegments == []oneSegmentPerMention /\ [][inertWithoutCoords]_vars

\* C8 witness: a mention without coordinates has just been clicked while
\* another place is selected, and the chapter has a mention of each kind.
C8_Witness ==
    /\ textPanelShown
    /\ lastEvent.type = "click"
    /\ ~lastEvent.hasCoords
    /\ selectedPlace # NoPlace
    /\ Len(placeSegments(segments)) = 2

---------------------------------------------------------------------------
(* C9, C10: selection and the Greek fetch, under Spec *)

\* C9: after a click on the mention of a place p with coordinates, and after
\* a click on the map marker of p, selectedPlace = p, highlightedPlaces = {p}
\* and the reading view is still shown.
C9_SameSelection ==
    (lastEvent.type \in {"click", "markerClick"} /\ lastEvent.hasCoords) =>
        /\ selectedPlace = lastEvent.place
        /\ highlightedPlaces = {lastEvent.place}
        /\ path.view = "book"

\* C10: within one session of the reading view, no (book, chapter) has had
\* more than one Greek fetch issued.
C10_FetchOnce ==
    \A key \in BagToSet(requests) : CopiesIn(key, requests) <= 1

---------------------------------------------------------------------------
(* C11, C12: failed Greek fetches, under Spec *)

\* the cache entry of chapter c holds one of the two failure messages
failedIn(gt, c) == c \in DOMAIN gt /\ gt[c].kind \in {"error", "unavailable"}

\* this step issues a fetch for the key
issues(key) == CopiesIn(key, requests') > CopiesIn(key, requests)

\* C11: when the cache entry of the current chapter holds the error message
\* of a failed fetch and the language toggle switches back to Greek, a new
\* fetch is issued for the current chapter.
C11_RetryOnRetoggle ==
    [][(/\ lastEvent'.type = "toggle"
        /\ language = "english" /\ language' = "greek"
        /\ currentChapter \in DOMAIN greekText
        /\ greekText[currentChapter].kind = "error")
            => issues(<<bookNum, currentChapter>>)]_vars

\* C12: while the cache entry of a chapter holds a failure message, no step
\* other than a language toggle or a chapter change issues a fetch for that
\* chapter; the completion that stores the failure is such a step.
C12_NoAutomaticRetry ==
    [][\A b \in BookIds, c \in 1..3 :
            (issues(<<b, c>>) /\ (failedIn(greekText, c) \/ failedIn(greekText', c)))
                => lastEvent'.type \in {"toggle", "prev", "next", "select"}]_vars

\* C12 witness: the fetch of the current chapter has just failed in Greek
\* mode, nothing is in flight and one fetch was issued for the chapter.
C12_Witness ==
    /\ textPanelShown
    /\ language = "greek"
    /\ lastEvent.type = "error"
    /\ failedIn(greekText, currentChapter)
    /\ inflight = EmptyBag
    /\ CopiesIn(<<bookNum, currentChapter>>, requests) = 1

---------------------------------------------------------------------------
(* C13, C14: what a response writes, under Spec *)

\* this step is the arrival of a response to a fetch issued for the key
completes(key) ==
    /\ lastEvent'.type \in FetchOutcomes
    /\ CopiesIn(key, inflight') < CopiesIn(key, inflight)

\* C13: the response to a fetch issued for chapter c writes the cache entry
\* of c, leaves every other entry as it was, and leaves the Greek panel of a
\* current chapter other than c as it was.
C13_KeyedByChapter ==
    [][\A b \in BookIds, c \in 1..3 :
            completes(<<b, c>>) =>
                /\ c \in DOMAIN greekText'
                /\ \A d \in (DOMAIN greekText \cup DOMAIN greekText') \ {c} :
                        /\ d \in DOMAIN greekText /\ d \in DOMAIN greekText'
                        /\ greekText'[d] = greekText[d]
                /\ currentChapter # c =>
                        greekPanel(greekText', currentChapter')
                            = greekPanel(greekText, currentChapter)]_vars

\* C13 witness: in Greek mode a response has arrived and the current chapter
\* is still without entry: the response was for another chapter.
C13_Witness ==
    /\ textPanelShown
    /\ language = "greek"
    /\ lastEvent.type \in FetchOutcomes
    /\ greekText # <<>>
    /\ currentChapter \notin DOMAIN greekText

\* C14: a failed fetch for chapter c leaves the error message in the cache
\* entry of c, a response without passage text leaves the 'not available'
\* message there; the Greek panel for c then shows that message and not the
\* loading placeholder, and language, current chapter, selection and path
\* are as before.
C14_FailureMessage ==
    [][\A b \in BookIds, c \in 1..3 :
            (completes(<<b, c>>) /\ lastEvent'.type \in {"error", "unavailable"}) =>
                /\ c \in DOMAIN greekText'
                /\ greekText'[c].kind = lastEvent'.type
                /\ greekPanel(greekText', c).kind = lastEvent'.type
                /\ greekPanel(greekText', c) # Loading
                /\ UNCHANGED <<language, currentChapter, selectedPlace,
                               highlightedPlaces, path>>]_vars

\* C14 witness: with a place selected, the response for the current chapter
\* has just come without passage text.
C14_Witness ==
    /\ textPanelShown
    /\ language = "greek"
    /\ selectedPlace # NoPlace
    /\ lastEvent.type = "unavailable"
    /\ currentChapter \in DOMAIN greekText
    /\ greekText[currentChapter].kind = "unavailable"

---------------------------------------------------------------------------
(* C15, C16: missing data and deep links, under Spec *)

\* C15: on a book path whose id has no bundled book data the page is 'Book
\* not found' and no place list or segment is computed; on a place path
\* whose id is not in the gazetteer the page is 'Place not found' and the
\* occurrence index, the co-occurrence list and its markers are empty.
C15_NotFound ==
    /\ (path.view = "book" /\ path.bookId \notin DOMAIN bookTexts) =>
            /\ readingScreen = "Book not found..."
            /\ mapPlaces = NotRendered
            /\ segments = <<>>
    /\ (path.view = "place" /\ path.placeId \notin DOMAIN placesData) =>
            /\ ~coMarkers.found
            /\ coMarkers.occurrences = <<>>
            /\ coMarkers.list = <<>>
            /\ coMarkers.markers = <<>>

\* C15 witness: book 2, which has no bundled text, has been opened from the
\* summary page.
C15_Witness ==
    /\ path = bookPath(2, NoChapterParam)
    /\ lastEvent.type = "bookDoubleClick"
    /\ 2 \notin DOMAIN bookTexts

\* C16: in the reading view the current chapter is the chapter of the path,
\* or 1 when the path has none (after a deep link as well as after
\* handleChapterChange, which sets both); on a place path the page is that
\* of the place of the path.
C16_PathInStep ==
    /\ path.view = "book" =>
            /\ path.chapterId # NoChapterParam => currentChapter = path.chapterId
            /\ path.chapterId = NoChapterParam => currentChapter = 1
            /\ lastEvent.type \in {"prev", "next", "select"} =>
                    path.chapterId = currentChapter
    /\ path.view = "place" =>
            /\ coMarkers.found = (path.placeId \in DOMAIN placesData)
            /\ coMarkers = detailOf(placesData, path.placeId)

\* C16 witness: /book/1/chapter/2 has been opened from another page.
C16_Witness ==
    /\ path = bookPath(1, 2)
    /\ lastEvent.type = "open"
    /\ currentChapter = 2

---------------------------------------------------------------------------
(* SpecWindow: getMemoryPlaces on books in which every chapter has a place  *)
(* of its own                                                              *)

\* chapter j mentions the place named after it, chapter e one more ("x"),
\* and every chapter the recurring place "r" when rec is set; the book has no
\* chapter m (e = 0: no extra place, m = 0: no chapter missing)
windowBook(e, m, rec) ==
    [id |-> 1,
     chapters |-> chaptersFrom(
        [c \in 1..MaxChapter |->
            IF c = m THEN Missing
            ELSE <<ToString(c)>> \o (IF c = e THEN <<"x">> ELSE <<>>)
                                 \o (IF rec THEN <<"r">> ELSE <<>>)],
        1, MaxChapter)]

WindowPlaces == {ToString(c) : c \in 1..MaxChapter} \cup {"x", "r"}

\* every place of the book has coordinates
windowGazetteer(book) ==
    [p \in WindowPlaces |-> placeRecord(p, "38.5", "23.7", occurrencesIn(book, p))]

InitWindow ==
    /\ \E e \in 0..MaxChapter, m \in 0..MaxChapter, rec \in BOOLEAN :
        /\ bookTexts = [b \in {1} |-> windowBook(e, m, rec)]
        /\ placesData = windowGazetteer(windowBook(e, m, rec))
    /\ path = summaryPath
    /\ currentChapter = 1
    /\ selectedPlace = NoPlace
    /\ highlightedPlaces = {}
    /\ language = "english"
    /\ greekText = <<>>
    /\ inflight = EmptyBag
    /\ requests = EmptyBag
    /\ lastEvent = NoEvent
    /\ mapPlaces = NotRendered
    /\ segments = <<>>
    /\ unlocatedPlaces = <<>>
    /\ selectedBook = 1
    /\ bookPlaces = computeBookPlaces(placesData, 1)
    /\ coMarkers = NoDetail
    /\ booksIndex = sessionIndex
    /\ activeBaseLayer = "satellite"
    /\ temporalLayers = <<>>
    /\ scriptNotRun

\* the reading view is opened from the summary page at /book/1/chapter/n
NextWindow ==
    path = summaryPath /\ \E n \in 0..(MaxChapter + 1) : OpenBook(1, n)

SpecWindow == InitWindow /\ [][NextWindow]_vars

---------------------------------------------------------------------------
(* C17: the size of the memory list, under SpecWindow *)

memoryChaptersOf(list) == {list[k].memoryChapter : k \in 1..Len(list)}

\* the places mentioned in the existing chapters n-10..n-1
windowMentions(book, n) ==
    UNION {mentionedIn(book, c) : c \in Max(1, n - 10)..(n - 1)}

---------------------------------------------------------------------------
(* C18..C20: memory opacities, under SpecMemory *)

\* C18: every memory entry has an opacity above 0 and at most 1 (opacities
\* are in hundredths).
C18_OpacityRange ==
    readingShown =>
        \A k \in 1..Len(mapPlaces.memory) :
            mapPlaces.memory[k].opacity > 0 /\ mapPlaces.memory[k].opacity <= 100

\* C18 witness: two memory entries, from the nearest and from the farthest
\* chapter of the window.
C18_Witness ==
    /\ readingShown
    /\ Len(mapPlaces.memory) = 2
    /\ \E j, k \in 1..2 :
        /\ mapPlaces.memory[j].memoryChapter = currentChapter - 1
        /\ mapPlaces.memory[k].memoryChapter = currentChapter - 10

\* the place has a record whose latitude and longitude are non-zero numbers
nonZeroCoordinates(pd, p) ==
    p \in DOMAIN pd /\ pd[p].lat \notin {"null", "0"} /\ pd[p].lng \notin {"null", "0"}

C20_TenthSteps ==
    readingShown =>
        \A j \in 1..Len(mapPlaces.memory) :
            LET k == currentChapter - mapPlaces.memory[j].memoryChapter
            IN \/ mapPlaces.memory[j].opacity = 100 - (10 * k)
               \/ k = 10 /\ mapPlaces.memory[j].opacity = 10

---------------------------------------------------------------------------
(* C21 - C30                                                               *)

chapterChangeEvents == {"prev", "next", "select"}

\* C21: every chapter change made through the text panel (Prev, Next, the
\* chapter select) ends with no selected place and no highlighted place, and
\* leaves the language mode and the Greek-text cache as they were.
C21_ChapterChangeResets ==
    [][lastEvent'.type \in chapterChangeEvents =>
            /\ selectedPlace' = NoPlace
            /\ highlightedPlaces' = {}
            /\ language' = language
            /\ greekText' = greekText]_vars

\* Next was pressed in Greek mode with the Greek text of chapter 1 cached
C21_Witness ==
    /\ lastEvent.type = "next"
    /\ currentChapter = 2
    /\ language = "greek"
    /\ 1 \in DOMAIN greekText
    /\ selectedPlace = NoPlace
    /\ highlightedPlaces = {}

---------------------------------------------------------------------------
(* SpecDetail: the place pages over drawn gazetteers whose occurrence      *)
(* lists repeat records, are in any order and span two books              *)

MaxFillers == 11
MaxOccurrences == 2

OccurrenceRecords ==
    {[book |-> 1, chapter |-> 1], [book |-> 1, chapter |-> 2], [book |-> 2, chapter |-> 1]}

\* the occurrence lists of up to n records
RECURSIVE OccurrenceLists(_)
OccurrenceLists(n) ==
    IF n = 0 THEN {<<>>}
    ELSE LET shorter == OccurrenceLists(n - 1)
         IN shorter \cup {Append(l, r) : l \in {x \in shorter : Len(x) = n - 1},
                                         r \in OccurrenceRecords}

\* the further places of the gazetteer, named "1", "2", ...: the odd ones
\* occur in chapter 1.1, the even ones in 1.2 and 1.1
fillerOccurrences(k) ==
    IF k % 2 = 1 THEN <<[book |-> 1, chapter |-> 1]>>
    ELSE <<[book |-> 1, chapter |-> 2], [book |-> 1, chapter |-> 1]>>

detailGazetteer(occA, occB, n) ==
    [p \in {"a", "b"} \cup {ToString(k) : k \in 1..n} |->
        placeRecord(p, "38.5", "23.7",
            IF p = "a" THEN occA
            ELSE IF p = "b" THEN occB
            ELSE fillerOccurrences(CHOOSE k \in 1..n : ToString(k) = p))]

\* the pages that are opened: "zz" is in no gazetteer
DetailIds == {"a", "b", "1", "2", "zz"}

InitDetail ==
    /\ \E occA \in OccurrenceLists(MaxOccurrences) :
        \E occB \in OccurrenceLists(MaxOccurrences) :
            \E n \in {0, MaxFillers - 1, MaxFillers} :
                placesData = detailGazetteer(occA, occB, n)
    \* no book text is bundled
    /\ bookTexts = <<>>
    /\ path = summaryPath
    /\ currentChapter = 1
    /\ selectedPlace = NoPlace
    /\ highlightedPlaces = {}
    /\ language = "english"
    /\ greekText = <<>>
    /\ inflight = EmptyBag
    /\ requests = EmptyBag
    /\ lastEvent = NoEvent
    /\ mapPlaces = NotRendered
    /\ segments = <<>>
    /\ unlocatedPlaces = <<>>
    /\ selectedBook = 1
    /\ bookPlaces = computeBookPlaces(placesData, 1)
    /\ coMarkers = NoDetail
    /\ booksIndex = sessionIndex
    /\ activeBaseLayer = "satellite"
    /\ temporalLayers = <<>>
    /\ scriptNotRun

\* the links between the summary page and the place pages
NextDetail ==
    \/ \E p \in DetailIds : OpenPlace(p)
    \/ GoSummary

SpecDetail == InitDetail /\ [][NextDetail]_vars

\* the (book, chapter) pairs in which a place occurs
occurrencePairs(pd, p) ==
    {<<pd[p].occurrences[i].book, pd[p].occurrences[i].chapter>> :
        i \in 1..Len(pd[p].occurrences)}

detailShown == path.view = "place" /\ path.placeId \in DOMAIN placesData

\* C22: the co-occurrence list of place p has at most 10 places, never p
\* itself, only places that occur in a (book, chapter) where p occurs, in
\* non-increasing order of coCount; the occurrence index lists, per book of
\* p's occurrences, each chapter where p occurs exactly once, ascending.
C22_CoOccurrenceList ==
    detailShown =>
        LET p    == path.placeId
            list == coMarkers.list
            occ  == coMarkers.occurrences
            mine == occurrencePairs(placesData, p)
        IN /\ Len(list) <= 10
           /\ \A k \in 1..Len(list) :
                /\ list[k].id # p
                /\ list[k].id \in DOMAIN placesData
                /\ occurrencePairs(placesData, list[k].id) \cap mine # {}
           /\ \A k \in 1..(Len(list) - 1) : list[k].coCount >= list[k + 1].coCount
           /\ DOMAIN occ = {pair[1] : pair \in mine}
           /\ \A b \in DOMAIN occ :
                /\ \A i \in 1..(Len(occ[b]) - 1) : occ[b][i] < occ[b][i + 1]
                /\ {occ[b][i] : i \in 1..Len(occ[b])} = {pair[2] : pair \in {x \in mine : x[1] = b}}

\* the page of "a", recorded in 1.2 and then 1.1: more than ten places share
\* a chapter with it, ten are listed, and not all with the same count
C22_Witness ==
    /\ detailShown
    /\ path.placeId = "a"
    /\ placesData["a"].occurrences =
            <<[book |-> 1, chapter |-> 2], [book |-> 1, chapter |-> 1]>>
    /\ Cardinality({q \in DOMAIN placesData \ {"a"} :
            occurrencePairs(placesData, q) \cap occurrencePairs(placesData, "a") # {}}) > 10
    /\ Len(coMarkers.list) = 10
    /\ coMarkers.list[1].coCount > coMarkers.list[10].coCount
    /\ coMarkers.occurrences[1] = <<1, 2>>

\* C23: the count shown for q on the page of p ('N shared chapters') is the
\* number of distinct (book, chapter) pairs in which both p and q occur.
C23_SharedChapterCount ==
    detailShown =>
        \A k \in 1..Len(coMarkers.list) :
            coMarkers.list[k].coCount =
                Cardinality(occurrencePairs(placesData, path.placeId)
                            \cap occurrencePairs(placesData, coMarkers.list[k].id))

---------------------------------------------------------------------------
(* SpecLayers: the reading view under base-layer changes, clicks on        *)
(* mentions, chapter changes and changes of the location while it is on    *)
(* the page, for drawn date ranges                                         *)

\* book 1 mentions "a" in chapter 1 and "b" in chapter 2, book 2 the other
\* way round
layersBook(b) ==
    [id |-> b,
     chapters |-> <<chapterOf(1, IF b = 1 THEN <<"a">> ELSE <<"b">>),
                    chapterOf(2, IF b = 1 THEN <<"b">> ELSE <<"a">>)>>]

layersGazetteer(bt) ==
    [p \in PlaceIds |->
        placeRecord(p, "38.5", "23.7",
            occurrencesIn(bt[1], p)
            \o (IF 2 \in DOMAIN bt THEN occurrencesIn(bt[2], p) ELSE <<>>))]

InitLayers ==
    /\ \E n \in {1, 2} :
        /\ bookTexts = [b \in 1..n |-> layersBook(b)]
        /\ placesData = layersGazetteer([b \in 1..n |-> layersBook(b)])
    /\ \E r1 \in {NoRange, dateRange(1, -560, -479)} :
        \E r2 \in {NoRange, dateRange(2, -525, -479)} :
            booksIndex = [b \in BookIds |-> [id |-> b, dateRange |-> IF b = 1 THEN r1 ELSE r2]]
    /\ path = summaryPath
    /\ currentChapter = 1
    /\ selectedPlace = NoPlace
    /\ highlightedPlaces = {}
    /\ language = "english"
    /\ greekText = <<>>
    /\ inflight = EmptyBag
    /\ requests = EmptyBag
    /\ lastEvent = NoEvent
    /\ mapPlaces = NotRendered
    /\ segments = <<>>
    /\ unlocatedPlaces = <<>>
    /\ selectedBook = 1
    /\ bookPlaces = computeBookPlaces(placesData, 1)
    /\ coMarkers = NoDetail
    /\ activeBaseLayer = "satellite"
    /\ temporalLayers = <<>>
    /\ scriptNotRun

\* the location changes with the reading view on the page (the address
\* bar, a bookmark) or off it; a mention is clicked; the chapter and the base
\* layer change
NextLayers ==
    \/ \E b \in BookIds, c \in {NoChapterParam, 1, 2} : OpenBook(b, c)
    \/ GoSummary
    \/ handlePrev
    \/ handleNext
    \/ \E k \in 1..Len(segments) : MentionClick(k)
    \/ \E name \in LayerNames : handleBaseLayerChange(name)

SpecLayers == InitLayers /\ [][NextLayers]_vars

\* MapPanel is on the page
mapShown == path.view = "book" /\ theBook # NoBook

\* C24: the temporal overlay is on the reading map exactly when the active
\* base layer is 'CAWM Ancient World' and the book has a dateRange, after
\* every event and the effects that follow it; at most one overlay is on the
\* map at any time; a base-layer event sets the active layer to the layer it
\* names, and one naming a layer that is not known leaves it unchanged.
C24_OverlayIffCawm ==
    /\ [](/\ Len(temporalLayers) <= 1
          /\ mapShown =>
                ((Len(temporalLayers) = 1) <=>
                    (/\ activeBaseLayer = "cawm"
                     /\ dateRangeOf(booksIndex, path.bookId) # NoRange)))
    /\ [][\A name \in LayerNames :
            handleBaseLayerChange(name) =>
                /\ name = CawmAncientWorld => activeBaseLayer' = "cawm"
                /\ name \in {SatelliteImagery, ModernPoliticalMap} => activeBaseLayer' # "cawm"
                /\ name = Terrain => activeBaseLayer' = activeBaseLayer]_vars

\* 'CAWM Ancient World' has been chosen on the map of book 2, which has a
\* date range: its overlay is on the map
C24_Witness ==
    /\ mapShown
    /\ path.bookId = 2
    /\ lastEvent.type = "baselayerchange"
    /\ activeBaseLayer = "cawm"
    /\ temporalLayers = <<[dateRange |-> dateRange(2, -525, -479)]>>

---------------------------------------------------------------------------
(* SpecScript: runs of fetch-greek-text.js over drawn books lists and      *)
(* replies of the text service                                             *)

MaxScriptChapter == 2

\* the books lists: one or two books, book i with id i and maxChapterId up
\* to MaxScriptChapter
ScriptBookLists ==
    {<<[id |-> 1, maxChapterId |-> m]>> : m \in 0..MaxScriptChapter} \cup
    {<<[id |-> 1, maxChapterId |-> m], [id |-> 2, maxChapterId |-> n]>> :
        m \in 0..MaxScriptChapter, n \in 0..MaxScriptChapter}

InitScript ==
    /\ scriptBooks \in ScriptBookLists
    /\ scriptPc = "start"
    /\ scriptBook = 1
    /\ scriptChapter = 1
    /\ allText = <<>>
    /\ fetchLog = <<>>
    /\ outputFile = <<>>
    \* the application is not part of the run
    /\ bookTexts = [b \in {1} |-> sessionBook]
    /\ placesData = sessionGazetteer
    /\ booksIndex = sessionIndex
    /\ path = summaryPath
    /\ currentChapter = 1
    /\ selectedPlace = NoPlace
    /\ highlightedPlaces = {}
    /\ language = "english"
    /\ greekText = <<>>
    /\ inflight = EmptyBag
    /\ requests = EmptyBag
    /\ lastEvent = NoEvent
    /\ mapPlaces = NotRendered
    /\ segments = <<>>
    /\ unlocatedPlaces = <<>>
    /\ selectedBook = 1
    /\ bookPlaces = computeBookPlaces(placesData, 1)
    /\ coMarkers = NoDetail
    /\ activeBaseLayer = "satellite"
    /\ temporalLayers = <<>>

NextScript ==
    \/ fetchAllGreekText
    \/ \E reply \in ScriptReplies : fetchGreekTextReturns(reply)
    \/ delayElapses

\* every request is answered or fails, and every timer fires
SpecScript == InitScript /\ [][NextScript]_vars /\ WF_vars(NextScript)

\* the (book, chapter) pairs with 1 <= chapter <= maxChapterId, book by book
RECURSIVE expectedRequests(_)
expectedRequests(books) ==
    IF books = <<>> THEN <<>>
    ELSE [c \in 1..Head(books).maxChapterId |-> <<Head(books).id, c>>]
         \o expectedRequests(Tail(books))

Range(f) == {f[x] : x \in DOMAIN f}

requested == [i \in 1..Len(fetchLog) |-> <<fetchLog[i].book, fetchLog[i].chapter>>]

\* the file holds the chapters that came back with text, and no other
holdsTheFetchedText(out) ==
    /\ \A i \in 1..Len(fetchLog) :
        LET b == fetchLog[i].book
            c == fetchLog[i].chapter
        IN IF fetchLog[i].reply = "passage"
           THEN /\ b \in DOMAIN out
                /\ c \in DOMAIN out[b]
                /\ out[b][c] = [kind |-> "text", book |-> b, chapter |-> c]
           ELSE b \in DOMAIN out => c \notin DOMAIN out[b]
    /\ \A b \in DOMAIN out : \A c \in DOMAIN out[b] : <<b, c>> \in Range(requested)

C26_CachedTextKept ==
    [][\A c \in DOMAIN greekText \cap DOMAIN greekText' :
            greekText[c].kind = "passage" =>
                greekText'[c].kind \notin {"error", "unavailable"}]_vars

existingIds(book) == {book.chapters[k].id : k \in 1..Len(book.chapters)}

\* C27: in every state of the reading view of a book that exists,
\* currentChapter is the id of a chapter of the book; Prev moves to the next
\* lower chapter id, Next to the next higher one, and neither moves at the
\* first or the last chapter.
C27_ChapterExists ==
    /\ [](readingShown => currentChapter \in existingIds(theBook))
    /\ [][/\ lastEvent'.type = "prev" =>
                /\ \E id \in existingIds(theBook) : id < currentChapter
                /\ currentChapter' \in existingIds(theBook)
                /\ currentChapter' < currentChapter
                /\ \A id \in existingIds(theBook) :
                        id < currentChapter => id <= currentChapter'
          /\ lastEvent'.type = "next" =>
                /\ \E id \in existingIds(theBook) : id > currentChapter
                /\ currentChapter' \in existingIds(theBook)
                /\ currentChapter' > currentChapter
                /\ \A id \in existingIds(theBook) :
                        id > currentChapter => id >= currentChapter']_vars

\* the places the window of chapter n mentions
windowMentioned(book, n) ==
    UNION {mentionedIn(book, n - d) : d \in {x \in 1..10 : n - x >= 1}}

\* C28: in every state of the reading view, highlightedPlaces is empty or
\* {selectedPlace} and is empty exactly when selectedPlace is null; a
\* selected place has coordinates and is mentioned in the current chapter or
\* in its memory window.
C28_SelectionInView ==
    readingShown =>
        /\ highlightedPlaces = IF selectedPlace = NoPlace THEN {} ELSE {selectedPlace}
        /\ selectedPlace # NoPlace =>
                /\ coordinateBearing(placesData, selectedPlace)
                /\ selectedPlace \in mentionedIn(theBook, currentChapter)
                                     \cup windowMentioned(theBook, currentChapter)

---------------------------------------------------------------------------
(* SpecFetch: the session of Spec in which every fetch that is awaited gets *)
(* its response                                                            *)

SpecFetch ==
    /\ Spec
    /\ \A b \in BookIds, c \in 1..3 :
        WF_vars(\E outcome \in FetchOutcomes : fetchGreekTextCompletes(<<b, c>>, outcome))

\* the Greek panel of chapter c is on the page and shows 'Loading Greek
\* text...'
loadingShown(c) ==
    /\ textPanelShown
    /\ language = "greek"
    /\ currentChapter = c
    /\ greekPanel(greekText, c) = Loading

\* C29: in Greek mode the panel of a chapter does not show 'Loading Greek
\* text...' for ever when every fetch gets its response: entering Greek mode
\* or changing the chapter with no cached entry issues a fetch for the
\* current chapter, a fetch for it is awaited as long as the panel shows
\* 'Loading Greek text...', and every response, success or failure, fills the
\* entry of its chapter.
C29_LoadingEnds ==
    /\ [](\A c \in 1..3 :
            loadingShown(c) => BagIn(<<path.bookId, c>>, inflight))
    /\ [][/\ \A c \in 1..3 :
                (loadingShown(c)' /\ (language # "greek" \/ currentChapter # c)) =>
                    CopiesIn(<<path.bookId, c>>, requests')
                        > CopiesIn(<<path.bookId, c>>, requests)
          /\ (lastEvent'.type \in FetchOutcomes) =>
                \E c \in DOMAIN greekText' :
                    /\ \E b \in BookIds : BagIn(<<b, c>>, inflight)
                    /\ greekPanel(greekText', c) # Loading
                    /\ greekPanel(greekText', c).kind = lastEvent'.type]_vars
    /\ \A c \in 1..3 : loadingShown(c) ~> ~loadingShown(c)

\* Greek mode on chapter 2: the fetch has failed and the panel shows the
\* message in place of 'Loading Greek text...'
C29_Witness ==
    /\ textPanelShown
    /\ language = "greek"
    /\ currentChapter = 2
    /\ lastEvent.type = "error"
    /\ greekPanel(greekText, 2).kind = "error"
    /\ inflight = EmptyBag

\* C30: every place id mentioned in the current chapter is in exactly one
\* of the map's 'current' list and the text panel's list of places without
\* known coordinates, once: in the first when the place has coordinates, in
\* the second when it has none or has no gazetteer record.
C30_TwoLists ==
    (readingShown /\ chapterExists(theBook, currentChapter)) =>
        LET mentioned == mentionedIn(theBook, currentChapter)
        IN /\ idsOf(mapPlaces.current) \cap idsOf(unlocatedPlaces) = {}
           /\ idsOf(mapPlaces.current) \cup idsOf(unlocatedPlaces) = mentioned
           /\ noRepeat(mapPlaces.current)
           /\ noRepeat(unlocatedPlaces)
           /\ \A p \in mentioned :
                p \in idsOf(mapPlaces.current) <=> coordinateBearing(placesData, p)

===========================================================================
